---- MODULE Spec2Model ----
(***************************************************************************)
(* Model of dashboard/app.py: the order-analysis dashboard.  One run of    *)
(* main() loads the table, reads the sidebar, filters the table and feeds  *)
(* the filtered view to each aggregator in turn.                           *)
(*                                                                         *)
(* A table (DataFrame) is a sequence of rows; a row is a record whose      *)
(* fields carry the source's column names.  A timestamp is a number of     *)
(* ticks since the first day of the calendar, a date is a number of days.  *)
(* Money is counted in whole units, so sums are exact.                     *)
(***************************************************************************)
EXTENDS Integers, Sequences, FiniteSets, TLC

VARIABLES all_data, pc, start_date, end_date, selected_status, filtered_data,
          total_orders, total_revenue, monthly_orders, daily_orders,
          category_summary, rfm_df, sales_by_state

vars == <<all_data, pc, start_date, end_date, selected_status, filtered_data,
          total_orders, total_revenue, monthly_orders, daily_orders,
          category_summary, rfm_df, sales_by_state>>

(***************************************************************************)
(* Bounds of the model.                                                    *)
(***************************************************************************)
\* Largest number of rows of the loaded table.
MaxRows == 2
\* Largest number of rows of a loaded table whose rows share one purchase time.
MaxCustomerRows == 3
\* Last calendar day on which a purchase can fall (days are 0..MaxDay).
MaxDay == 2

\* The instants of a day at which a purchase can fall.
TimesOfDay == {0, 1}
TicksPerDay == Cardinality(TimesOfDay)
\* Lengths in days of the calendar months, repeating.
MonthLengths == <<2, 3>>

Days == 0..MaxDay
Timestamps == {d * TicksPerDay + t : d \in Days, t \in TimesOfDay}
Statuses == {"delivered", "canceled"}
OrderIds == {1, 2}
CustomerIds == {1, 2}
CustomerStates == {"SP", "RJ", "MG"}
Payments == {1, 2}

(***************************************************************************)
(* Calendar.                                                               *)
(***************************************************************************)
\* Series.dt.date: the calendar date of a timestamp.
DateOf(ts) == ts \div TicksPerDay

\* Midnight of a calendar date, as a timestamp.
Midnight(d) == d * TicksPerDay

DaysInMonth(m) == MonthLengths[(m % Len(MonthLengths)) + 1]

RECURSIVE MonthStart(_)
\* First day of month m.
MonthStart(m) == IF m = 0 THEN 0 ELSE MonthStart(m - 1) + DaysInMonth(m - 1)

\* Last day of month m.
MonthEnd(m) == MonthStart(m + 1) - 1

\* The calendar month a date falls in.
MonthOf(d) == CHOOSE m \in 0..d : MonthStart(m) <= d /\ d <= MonthEnd(m)

(***************************************************************************)
(* Column operations of the table library, as the code uses them.          *)
(***************************************************************************)
\* df[c]: one column of a table.
Column(df, c) == [i \in 1..Len(df) |-> df[i][c]]

RECURSIVE SumSeq(_)
\* Series.sum(): 0 for an empty column.
SumSeq(s) == IF Len(s) = 0 THEN 0 ELSE Head(s) + SumSeq(Tail(s))

\* A count of the values, repeated ones included.
NuniqueAsCount(s) == Len(s)

\* Series.nunique(): number of distinct values.
Nunique(s) == Cardinality({s[i] : i \in DOMAIN s})

\* Series.count(): number of (non-null) values.
Count(s) == Len(s)

\* The missing timestamp, the maximum of an empty timestamp column.
NaT == "NaT"

\* Series.max() / Series.min() of a timestamp column.
SeqMax(s) == IF Len(s) = 0 THEN NaT
             ELSE CHOOSE x \in {s[i] : i \in DOMAIN s} :
                    \A j \in DOMAIN s : s[j] <= x
SeqMin(s) == IF Len(s) = 0 THEN NaT
             ELSE CHOOSE x \in {s[i] : i \in DOMAIN s} :
                    \A j \in DOMAIN s : x <= s[j]

RECURSIVE SortedSeq(_)
\* The members of a set of integers in ascending order.
SortedSeq(S) ==
  IF S = {} THEN <<>>
  ELSE LET m == CHOOSE x \in S : \A y \in S : x <= y
       IN  <<m>> \o SortedSeq(S \ {m})

\* Series.unique(): the distinct values in order of first appearance.
Unique(s) ==
  LET first == {i \in DOMAIN s : \A j \in 1..(i - 1) : s[j] # s[i]}
      pos   == SortedSeq(first)
  IN  [k \in DOMAIN pos |-> s[pos[k]]]

(***************************************************************************)
(* filter_data                                                             *)
(***************************************************************************)
\* filter_data comparing the timestamps themselves with the end date's
\* midnight, instead of their dates: purchases later on the end date are lost.
FilterDataUntruncated(df, start, end, status) ==
  LET by_date == SelectSeq(df, LAMBDA r :
                     /\ r.order_purchase_timestamp >= Midnight(start)
                     /\ r.order_purchase_timestamp <= Midnight(end))
  IN  IF status # "ALL"
      THEN SelectSeq(by_date, LAMBDA r : r.order_status = status)
      ELSE by_date

\* filter_data putting the two dates in order before it compares.
FilterDataSwapping(df, start, end, status) ==
  LET lo == IF start <= end THEN start ELSE end
      hi == IF start <= end THEN end ELSE start
      by_date == SelectSeq(df, LAMBDA r :
                     /\ DateOf(r.order_purchase_timestamp) >= lo
                     /\ DateOf(r.order_purchase_timestamp) <= hi)
  IN  IF status # "ALL"
      THEN SelectSeq(by_date, LAMBDA r : r.order_status = status)
      ELSE by_date

\* The view of df between two dates and, unless 'ALL', of one status.
FilterData(df, start, end, status) ==
  LET by_date == SelectSeq(df, LAMBDA r :
                     /\ DateOf(r.order_purchase_timestamp) >= start
                     /\ DateOf(r.order_purchase_timestamp) <= end)
  IN  IF status # "ALL"
      THEN SelectSeq(by_date, LAMBDA r : r.order_status = status)
      ELSE by_date

(***************************************************************************)
(* create_daily_orders, create_monthly_orders                              *)
(***************************************************************************)
\* rule='D': a bin per calendar day, labelled by the day's midnight.
DayBin(ts) == DateOf(ts)
DayLabel(b) == Midnight(b)

\* A month bin labelled by the midnight of the month's first day.
MonthLabelStart(b) == Midnight(MonthStart(b))

\* rule='M': a bin per calendar month, labelled by the month's last day.
MonthBin(ts) == MonthOf(DateOf(ts))
MonthLabel(b) == Midnight(MonthEnd(b))

\* One bin's aggregate: {'order_id': 'nunique', 'payment_value': 'sum'}.
BinAgg(rows, label) ==
  [order_purchase_timestamp |-> label,
   order_id                 |-> Nunique(Column(rows, "order_id")),
   payment_value            |-> SumSeq(Column(rows, "payment_value"))]

\* The rows of df that fall in the day bin, the month bin b.
DayRows(df, b) ==
  SelectSeq(df, LAMBDA r : DayBin(r.order_purchase_timestamp) = b)
MonthRows(df, b) ==
  SelectSeq(df, LAMBDA r : MonthBin(r.order_purchase_timestamp) = b)

\* create_daily_orders answering an empty table with one bin without rows.
CreateDailyOrdersNeverEmpty(df) ==
  IF Len(df) = 0 THEN <<BinAgg(df, DayLabel(0))>>
  ELSE LET ts    == Column(df, "order_purchase_timestamp")
           first == DayBin(SeqMin(ts))
           last  == DayBin(SeqMax(ts))
       IN  [k \in 1..(last - first + 1) |->
              BinAgg(DayRows(df, first + k - 1), DayLabel(first + k - 1))]

\* create_daily_orders stopping one bin short of the latest row's.
CreateDailyOrdersOpenEnd(df) ==
  IF Len(df) = 0 THEN <<>>
  ELSE LET ts    == Column(df, "order_purchase_timestamp")
           first == DayBin(SeqMin(ts))
           last  == DayBin(SeqMax(ts))
       IN  [k \in 1..(last - first) |->
              BinAgg(DayRows(df, first + k - 1), DayLabel(first + k - 1))]

\* df.resample(rule='D', on='order_purchase_timestamp').agg(...).reset_index():
\* every bin from the one of the earliest row to the one of the latest row,
\* the bins without rows included; no bin at all for an empty table.
CreateDailyOrders(df) ==
  IF Len(df) = 0 THEN <<>>
  ELSE LET ts    == Column(df, "order_purchase_timestamp")
           first == DayBin(SeqMin(ts))
           last  == DayBin(SeqMax(ts))
       IN  [k \in 1..(last - first + 1) |->
              BinAgg(DayRows(df, first + k - 1), DayLabel(first + k - 1))]

\* The same with rule='M'.
CreateMonthlyOrders(df) ==
  IF Len(df) = 0 THEN <<>>
  ELSE LET ts    == Column(df, "order_purchase_timestamp")
           first == MonthBin(SeqMin(ts))
           last  == MonthBin(SeqMax(ts))
       IN  [k \in 1..(last - first + 1) |->
              BinAgg(MonthRows(df, first + k - 1), MonthLabel(first + k - 1))]

(***************************************************************************)
(* create_best_worst_categories                                            *)
(***************************************************************************)
\* groupby(category)['qty_order'].sum().reset_index(): a row per category,
\* in ascending order of the category.
CreateBestWorstCategories(df) ==
  LET keys == SortedSeq({df[i].product_category_name_english : i \in DOMAIN df})
  IN  [k \in DOMAIN keys |->
         [product_category_name_english |-> keys[k],
          qty_order |-> SumSeq(Column(
             SelectSeq(df, LAMBDA r : r.product_category_name_english = keys[k]),
             "qty_order"))]]

(***************************************************************************)
(* create_rfm_analysis                                                     *)
(***************************************************************************)
\* Timedelta.days: the whole days of a difference of timestamps.
TimedeltaDays(delta) == delta \div TicksPerDay

\* pd.factorize(s)[0]: each value's 0-based rank of first appearance.
Factorize(s) ==
  LET u == Unique(s)
  IN  [i \in DOMAIN s |-> (CHOOSE k \in DOMAIN u : u[k] = s[i]) - 1]

\* The aggregate with the recency taken between calendar dates.
RfmAggCalendarDays(key, rows, now) ==
  [customer_id |-> key,
   recency     |-> DateOf(now)
                   - DateOf(SeqMax(Column(rows, "order_purchase_timestamp"))),
   frequency   |-> Count(Column(rows, "order_id")),
   monetary    |-> SumSeq(Column(rows, "payment_value"))]

\* The aggregate with the frequency taken as 'nunique' of order_id.
RfmAggDistinctOrders(key, rows, now) ==
  [customer_id |-> key,
   recency     |-> TimedeltaDays(
                     now - SeqMax(Column(rows, "order_purchase_timestamp"))),
   frequency   |-> Nunique(Column(rows, "order_id")),
   monetary    |-> SumSeq(Column(rows, "payment_value"))]

\* The aggregate of one customer's rows.
RfmAgg(key, rows, now) ==
  [customer_id |-> key,
   recency     |-> TimedeltaDays(
                     now - SeqMax(Column(rows, "order_purchase_timestamp"))),
   frequency   |-> Count(Column(rows, "order_id")),
   monetary    |-> SumSeq(Column(rows, "payment_value"))]

\* The label column without the + 1.
NumericIdsZeroBased(customer_ids) ==
  [i \in DOMAIN customer_ids |-> Factorize(customer_ids)[i]]

\* The label column: numeric_id = factorize(customer_id)[0] + 1.
NumericIds(customer_ids) ==
  [i \in DOMAIN customer_ids |-> Factorize(customer_ids)[i] + 1]

CreateRfmAnalysis(df) ==
  LET now     == SeqMax(Column(df, "order_purchase_timestamp"))
      keys    == SortedSeq({df[i].customer_id : i \in DOMAIN df})
      grouped == [k \in DOMAIN keys |->
                    RfmAgg(keys[k],
                           SelectSeq(df, LAMBDA r : r.customer_id = keys[k]), now)]
      labels  == NumericIds(Column(grouped, "customer_id"))
  IN  [k \in DOMAIN grouped |->
         [customer_id |-> grouped[k].customer_id,
          recency     |-> grouped[k].recency,
          frequency   |-> grouped[k].frequency,
          monetary    |-> grouped[k].monetary,
          numeric_id  |-> labels[k]]]

(***************************************************************************)
(* create_geoanalysis                                                      *)
(***************************************************************************)
\* groupby('customer_state')['payment_value'].sum(): an entry per state.
StateSums(df) ==
  {[customer_state |-> s,
    payment_value  |-> SumSeq(Column(
                         SelectSeq(df, LAMBDA r : r.customer_state = s),
                         "payment_value"))] :
     s \in {df[i].customer_state : i \in DOMAIN df}}

\* The order of sort_values(ascending=False).
Descending(p) ==
  \A i \in DOMAIN p : \A j \in DOMAIN p :
     i < j => p[i].payment_value >= p[j].payment_value

\* sort_values(ascending=True) keeps an order in which the values do not
\* decrease.
Ascending(p) ==
  \A i \in DOMAIN p : \A j \in DOMAIN p :
     i < j => p[i].payment_value <= p[j].payment_value

\* The orders sort_values can return: the sort is not stable, so entries of
\* equal value can come out in either order.
CreateGeoanalysis(df) ==
  LET G == StateSums(df)
  IN  {p \in [1..Cardinality(G) -> G] :
         /\ \A g \in G : \E i \in DOMAIN p : p[i] = g
         /\ Ascending(p)}

(***************************************************************************)
(* create_sidebar                                                          *)
(***************************************************************************)
\* Bounds of the date picker.
MinDate(df) == DateOf(SeqMin(Column(df, "order_purchase_timestamp")))
MaxDate(df) == DateOf(SeqMax(Column(df, "order_purchase_timestamp")))

\* Options of the status control: ['ALL'] + list(df['order_status'].unique()).
StatusOptions(df) == <<"ALL">> \o Unique(Column(df, "order_status"))

(***************************************************************************)
(* The tables main() can load.  Each family lets some columns vary over    *)
(* their whole range and holds the others at one value.                    *)
(***************************************************************************)
Rows(TS, ST, OI, CI, CS, CA, PV) ==
  [order_purchase_timestamp : TS, order_status : ST, order_id : OI,
   customer_id : CI, customer_state : CS,
   product_category_name_english : CA, qty_order : {1}, payment_value : PV]

Tables(R, max) == UNION {[1..n -> R] : n \in 1..max}

\* Purchase time and status vary.
FilterTables == Tables(Rows(Timestamps, Statuses, {1}, {1}, {"SP"}, {1}, {1}), MaxRows)
\* Purchase time and order identifier vary.
OrderTables == Tables(Rows(Timestamps, {"delivered"}, OrderIds, {1}, {"SP"}, {1}, {1}), MaxRows)
\* Purchase time and payment vary.
RevenueTables == Tables(Rows(Timestamps, {"delivered"}, {1}, {1}, {"SP"}, {1}, Payments), MaxRows)
\* Purchase time and customer vary.
RecencyTables == Tables(Rows(Timestamps, {"delivered"}, {1}, CustomerIds, {"SP"}, {1}, {1}), MaxRows)
\* Customer, state and payment vary.
CustomerTables == Tables(Rows({0}, {"delivered"}, {1}, CustomerIds, CustomerStates, {1}, Payments), MaxCustomerRows)

(***************************************************************************)
(* main(): the state after load_data, then one action per call.            *)
(***************************************************************************)
\* The state in which a run of the script starts on the table df: the
\* widgets hold their default value and nothing has been computed.
Start(df) ==
  /\ all_data = df
  /\ pc = "sidebar"
  /\ start_date = MinDate(df)
  /\ end_date = MaxDate(df)
  /\ selected_status = "ALL"
  /\ filtered_data = <<>>
  /\ total_orders = 0
  /\ total_revenue = 0
  /\ monthly_orders = <<>>
  /\ daily_orders = <<>>
  /\ category_summary = <<>>
  /\ rfm_df = <<>>
  /\ sales_by_state = <<>>

Init == \E df \in FilterTables : Start(df)
InitOrders == \E df \in OrderTables : Start(df)
InitRevenue == \E df \in RevenueTables : Start(df)
InitRecency == \E df \in RecencyTables : Start(df)
InitCustomers == \E df \in CustomerTables : Start(df)

\* create_sidebar: the user picks two dates within the picker's bounds and
\* one of the status options.
CreateSidebar ==
  /\ pc = "sidebar"
  /\ \E s \in MinDate(all_data)..MaxDate(all_data) :
     \E e \in MinDate(all_data)..MaxDate(all_data) :
     \E k \in DOMAIN StatusOptions(all_data) :
        /\ start_date' = s
        /\ end_date' = e
        /\ selected_status' = StatusOptions(all_data)[k]
  /\ pc' = "filter"
  /\ UNCHANGED <<all_data, filtered_data, total_orders, total_revenue,
                 monthly_orders, daily_orders, category_summary, rfm_df,
                 sales_by_state>>

\* filtered_data = filter_data(all_data, start_date, end_date, selected_status)
Filter ==
  /\ pc = "filter"
  /\ filtered_data' = FilterData(all_data, start_date, end_date, selected_status)
  /\ pc' = "stats"
  /\ UNCHANGED <<all_data, start_date, end_date, selected_status, total_orders,
                 total_revenue, monthly_orders, daily_orders, category_summary,
                 rfm_df, sales_by_state>>

\* display_order_stats
DisplayOrderStats ==
  /\ pc = "stats"
  /\ total_orders' = Nunique(Column(filtered_data, "order_id"))
  /\ total_revenue' = SumSeq(Column(filtered_data, "payment_value"))
  /\ pc' = "monthly"
  /\ UNCHANGED <<all_data, start_date, end_date, selected_status, filtered_data,
                 monthly_orders, daily_orders, category_summary, rfm_df,
                 sales_by_state>>

\* display_monthly_sales
DisplayMonthlySales ==
  /\ pc = "monthly"
  /\ monthly_orders' = CreateMonthlyOrders(filtered_data)
  /\ pc' = "daily"
  /\ UNCHANGED <<all_data, start_date, end_date, selected_status, filtered_data,
                 total_orders, total_revenue, daily_orders, category_summary,
                 rfm_df, sales_by_state>>

\* display_daily_sales
DisplayDailySales ==
  /\ pc = "daily"
  /\ daily_orders' = CreateDailyOrders(filtered_data)
  /\ pc' = "categories"
  /\ UNCHANGED <<all_data, start_date, end_date, selected_status, filtered_data,
                 total_orders, total_revenue, monthly_orders, category_summary,
                 rfm_df, sales_by_state>>

\* display_best_worst_categories
DisplayBestWorstCategories ==
  /\ pc = "categories"
  /\ category_summary' = CreateBestWorstCategories(filtered_data)
  /\ pc' = "rfm"
  /\ UNCHANGED <<all_data, start_date, end_date, selected_status, filtered_data,
                 total_orders, total_revenue, monthly_orders, daily_orders,
                 rfm_df, sales_by_state>>

\* display_rfm_analysis
DisplayRfmAnalysis ==
  /\ pc = "rfm"
  /\ rfm_df' = CreateRfmAnalysis(filtered_data)
  /\ pc' = "geo"
  /\ UNCHANGED <<all_data, start_date, end_date, selected_status, filtered_data,
                 total_orders, total_revenue, monthly_orders, daily_orders,
                 category_summary, sales_by_state>>

\* display_geoanalysis; the displays that follow it in main() aggregate nothing.
DisplayGeoanalysis ==
  /\ pc = "geo"
  /\ sales_by_state' \in CreateGeoanalysis(filtered_data)
  /\ pc' = "done"
  /\ UNCHANGED <<all_data, start_date, end_date, selected_status, filtered_data,
                 total_orders, total_revenue, monthly_orders, daily_orders,
                 category_summary, rfm_df>>

\* The script runs again from the top on the same file.
Rerun ==
  /\ pc = "done"
  /\ all_data' = all_data
  /\ pc' = "sidebar"
  /\ start_date' = MinDate(all_data)
  /\ end_date' = MaxDate(all_data)
  /\ selected_status' = "ALL"
  /\ filtered_data' = <<>>
  /\ total_orders' = 0
  /\ total_revenue' = 0
  /\ monthly_orders' = <<>>
  /\ daily_orders' = <<>>
  /\ category_summary' = <<>>
  /\ rfm_df' = <<>>
  /\ sales_by_state' = <<>>

Next ==
  \/ CreateSidebar
  \/ Filter
  \/ DisplayOrderStats
  \/ DisplayMonthlySales
  \/ DisplayDailySales
  \/ DisplayBestWorstCategories
  \/ DisplayRfmAnalysis
  \/ DisplayGeoanalysis
  \/ Rerun

Spec == Init /\ [][Next]_vars
SpecOrders == InitOrders /\ [][Next]_vars
SpecRevenue == InitRevenue /\ [][Next]_vars
SpecRecency == InitRecency /\ [][Next]_vars
SpecCustomers == InitCustomers /\ [][Next]_vars

(***************************************************************************)
(* Vocabulary of the properties.                                           *)
(***************************************************************************)
Stages == <<"sidebar", "filter", "stats", "monthly", "daily", "categories",
            "rfm", "geo", "done">>
StageNo(p) == CHOOSE k \in DOMAIN Stages : Stages[k] = p
\* The step of main() that runs at stage p has run.
Ran(p) == StageNo(pc) > StageNo(p)

\* Number of positions of a table that hold the row x.
Occurrences(t, x) == Cardinality({i \in DOMAIN t : t[i] = x})

\* sub keeps some rows of t, in their order.
IsSubsequence(sub, t) ==
  \E f \in [DOMAIN sub -> DOMAIN t] :
     /\ \A i \in DOMAIN sub : t[f[i]] = sub[i]
     /\ \A i \in DOMAIN sub : \A j \in DOMAIN sub : i < j => f[i] < f[j]

RECURSIVE TotalUpTo(_, _, _)
\* Sum of column c over the first n rows of t.
TotalUpTo(t, c, n) == IF n = 0 THEN 0 ELSE TotalUpTo(t, c, n - 1) + t[n][c]
Total(t, c) == TotalUpTo(t, c, Len(t))

RECURSIVE TotalOver(_, _, _)
\* Sum of column c over the rows of t at the positions I.
TotalOver(t, c, I) ==
  IF I = {} THEN 0
  ELSE LET i == CHOOSE x \in I : TRUE
       IN  t[i][c] + TotalOver(t, c, I \ {i})

\* The calendar day of a row's purchase.
PurchaseDay(r) == r.order_purchase_timestamp \div TicksPerDay

\* The two predicates of the filter.
InRange(r) == start_date <= PurchaseDay(r) /\ PurchaseDay(r) <= end_date
HasStatus(r) == selected_status # "ALL" => r.order_status = selected_status

(***************************************************************************)
(* C1.  For dates start <= end, filter_data returns exactly the rows of    *)
(* the table whose purchase day lies in [start, end], both ends included,  *)
(* and whose status is the selected one unless 'ALL' is selected: the view *)
(* keeps those rows in their order and with their multiplicity, is no      *)
(* longer than the table, and with 'ALL' holds as many rows as the date    *)
(* predicate alone selects.                                                *)
(***************************************************************************)
C1_FilterExact ==
  (Ran("filter") /\ start_date <= end_date) =>
     /\ IsSubsequence(filtered_data, all_data)
     /\ \A i \in DOMAIN all_data :
          Occurrences(filtered_data, all_data[i]) =
            IF InRange(all_data[i]) /\ HasStatus(all_data[i])
            THEN Occurrences(all_data, all_data[i]) ELSE 0
     /\ Len(filtered_data) <= Len(all_data)
     /\ selected_status = "ALL" =>
          Len(filtered_data) = Cardinality({i \in DOMAIN all_data : InRange(all_data[i])})

\* A status is selected, a row bought after midnight of the end date is kept
\* and another row is dropped.
C1_Witness ==
  /\ pc = "stats"
  /\ start_date <= end_date
  /\ selected_status # "ALL"
  /\ Len(filtered_data) > 0
  /\ Len(filtered_data) < Len(all_data)
  /\ \E i \in DOMAIN filtered_data :
       /\ PurchaseDay(filtered_data[i]) = end_date
       /\ filtered_data[i].order_purchase_timestamp > end_date * TicksPerDay

(***************************************************************************)
(* C10.  Called with a start date later than the end date, filter_data     *)
(* goes through without swapping the dates: the view is empty whatever the *)
(* table and the status, and the table and the dates are left as they are. *)
(***************************************************************************)
C10_InvertedRangeStep ==
  (pc = "filter" /\ start_date > end_date) =>
     /\ pc' = "stats"
     /\ filtered_data' = <<>>
     /\ all_data' = all_data
     /\ start_date' = start_date
     /\ end_date' = end_date

C10_InvertedRange == [][C10_InvertedRangeStep]_vars

\* The filter has run on inverted dates that enclose a row of the table.
C10_Witness ==
  /\ pc = "stats"
  /\ start_date > end_date
  /\ filtered_data = <<>>
  /\ \E i \in DOMAIN all_data :
       end_date <= PurchaseDay(all_data[i]) /\ PurchaseDay(all_data[i]) <= start_date

(***************************************************************************)
(* C6.  On an empty view every aggregator returns an empty table, and no   *)
(* aggregator stops the run.                                               *)
(***************************************************************************)
C6_EmptyView ==
  (Ran("filter") /\ filtered_data = <<>>) =>
     /\ Ran("monthly") => monthly_orders = <<>>
     /\ Ran("daily") => daily_orders = <<>>
     /\ Ran("categories") => category_summary = <<>>
     /\ Ran("rfm") => rfm_df = <<>>
     /\ Ran("geo") => sales_by_state = <<>>
     /\ ENABLED Next

\* A run came to its end on an empty view of a table that has rows.
C6_Witness ==
  /\ pc = "done"
  /\ filtered_data = <<>>
  /\ start_date <= end_date
  /\ Len(all_data) > 0

(***************************************************************************)
(* Vocabulary of the time buckets.                                         *)
(***************************************************************************)
\* The positions of the view's rows bought on the calendar day that starts
\* at the timestamp t.
OnDayStarting(t) ==
  {i \in DOMAIN filtered_data : PurchaseDay(filtered_data[i]) * TicksPerDay = t}

\* The first and the last day of the calendar month of day d.
FirstOfMonth(d) == MonthStart(MonthOf(d))
LastOfMonth(d) == MonthEnd(MonthOf(d))

\* The positions of the view's rows bought in the calendar month whose last
\* day starts at the timestamp t.
InMonthEnding(t) ==
  {i \in DOMAIN filtered_data :
     LastOfMonth(PurchaseDay(filtered_data[i])) * TicksPerDay = t}

\* The bucket starts of a table grow strictly.
StrictlyIncreasing(buckets) ==
  \A i \in DOMAIN buckets : \A j \in DOMAIN buckets :
     i < j => buckets[i].order_purchase_timestamp
                < buckets[j].order_purchase_timestamp

\* Some order identifier is on more than one of the view's rows at I.
Repeats(I) ==
  \E i \in I : \E j \in I :
     i # j /\ filtered_data[i].order_id = filtered_data[j].order_id

DistinctOrders(I) == Cardinality({filtered_data[i].order_id : i \in I})

(***************************************************************************)
(* C2.  The payment values of the daily buckets add up to the payment      *)
(* value of the whole view, and so do those of the monthly buckets: each   *)
(* row counts in exactly one bucket.                                       *)
(***************************************************************************)
C2_BucketSums ==
  /\ Ran("monthly") =>
       Total(monthly_orders, "payment_value") = Total(filtered_data, "payment_value")
  /\ Ran("daily") =>
       Total(daily_orders, "payment_value") = Total(filtered_data, "payment_value")

\* Rows of unequal payment fell in two daily and two monthly buckets.
C2_Witness ==
  /\ Ran("daily")
  /\ Len(daily_orders) >= 2
  /\ Len(monthly_orders) >= 2
  /\ \E i \in DOMAIN filtered_data : \E j \in DOMAIN filtered_data :
       filtered_data[i].payment_value # filtered_data[j].payment_value

(***************************************************************************)
(* C3.  An order count of an aggregate (the Total Orders metric, the       *)
(* order_id of a daily or monthly bucket) is the number of distinct order  *)
(* identifiers among the rows aggregated.  It is less than the number of   *)
(* those rows when an identifier repeats among them, and in a view in      *)
(* which an identifier repeats it is less than the view's number of rows.  *)
(***************************************************************************)
C3_DistinctOrders ==
  /\ Ran("stats") =>
       /\ total_orders = DistinctOrders(DOMAIN filtered_data)
       /\ Repeats(DOMAIN filtered_data) => total_orders < Len(filtered_data)
  /\ Ran("daily") =>
       \A k \in DOMAIN daily_orders :
          LET I == OnDayStarting(daily_orders[k].order_purchase_timestamp)
          IN  /\ daily_orders[k].order_id = DistinctOrders(I)
              /\ Repeats(I) => daily_orders[k].order_id < Cardinality(I)
              /\ Repeats(DOMAIN filtered_data) =>
                   daily_orders[k].order_id < Len(filtered_data)
  /\ Ran("monthly") =>
       \A k \in DOMAIN monthly_orders :
          LET I == InMonthEnding(monthly_orders[k].order_purchase_timestamp)
          IN  /\ monthly_orders[k].order_id = DistinctOrders(I)
              /\ Repeats(I) => monthly_orders[k].order_id < Cardinality(I)
              /\ Repeats(DOMAIN filtered_data) =>
                   monthly_orders[k].order_id < Len(filtered_data)

\* Both rows of one order fell in one daily bucket.
C3_Witness ==
  /\ Ran("daily")
  /\ Repeats(DOMAIN filtered_data)
  /\ \E k \in DOMAIN daily_orders :
       Repeats(OnDayStarting(daily_orders[k].order_purchase_timestamp))

(***************************************************************************)
(* C8 as stated.  A row is aggregated under the start of its calendar day  *)
(* in the daily table and under the start of its calendar month in the     *)
(* monthly table, and the buckets come in strictly increasing order.       *)
(***************************************************************************)
C8_KeyIsBucketStart ==
  /\ Ran("daily") =>
       /\ \A i \in DOMAIN filtered_data :
            \E k \in DOMAIN daily_orders :
               daily_orders[k].order_purchase_timestamp
                 = PurchaseDay(filtered_data[i]) * TicksPerDay
       /\ StrictlyIncreasing(daily_orders)
  /\ Ran("monthly") =>
       /\ \A i \in DOMAIN filtered_data :
            \E k \in DOMAIN monthly_orders :
               monthly_orders[k].order_purchase_timestamp
                 = FirstOfMonth(PurchaseDay(filtered_data[i])) * TicksPerDay
       /\ StrictlyIncreasing(monthly_orders)

(***************************************************************************)
(* C8 amended.  A row is aggregated under the start of its calendar day in *)
(* the daily table and under the midnight of the last day of its calendar  *)
(* month in the monthly table: the bucket of that key sums the payments of *)
(* the rows of that day, of that month.  In both tables the buckets come   *)
(* in strictly increasing order.                                           *)
(***************************************************************************)
C8_KeyIsDayStartOrMonthEnd ==
  /\ Ran("daily") =>
       /\ \A i \in DOMAIN filtered_data :
            \E k \in DOMAIN daily_orders :
               /\ daily_orders[k].order_purchase_timestamp
                    = PurchaseDay(filtered_data[i]) * TicksPerDay
               /\ daily_orders[k].payment_value
                    = TotalOver(filtered_data, "payment_value",
                        OnDayStarting(daily_orders[k].order_purchase_timestamp))
       /\ StrictlyIncreasing(daily_orders)
  /\ Ran("monthly") =>
       /\ \A i \in DOMAIN filtered_data :
            \E k \in DOMAIN monthly_orders :
               /\ monthly_orders[k].order_purchase_timestamp
                    = LastOfMonth(PurchaseDay(filtered_data[i])) * TicksPerDay
               /\ monthly_orders[k].payment_value
                    = TotalOver(filtered_data, "payment_value",
                        InMonthEnding(monthly_orders[k].order_purchase_timestamp))
       /\ StrictlyIncreasing(monthly_orders)

\* Rows bought after midnight, on days that are not the last of their month,
\* fell in two daily and two monthly buckets.
C8_Witness ==
  /\ Ran("daily")
  /\ Len(daily_orders) >= 2
  /\ Len(monthly_orders) >= 2
  /\ \E i \in DOMAIN filtered_data :
       /\ filtered_data[i].order_purchase_timestamp
            > PurchaseDay(filtered_data[i]) * TicksPerDay
       /\ PurchaseDay(filtered_data[i]) < LastOfMonth(PurchaseDay(filtered_data[i]))

(***************************************************************************)
(* Vocabulary of the customer tables.                                      *)
(***************************************************************************)
\* The positions of the view's rows of customer c, of state st.
RowsOfCustomer(c) ==
  {i \in DOMAIN filtered_data : filtered_data[i].customer_id = c}
RowsOfState(st) ==
  {i \in DOMAIN filtered_data : filtered_data[i].customer_state = st}

CustomersInView == {filtered_data[i].customer_id : i \in DOMAIN filtered_data}
StatesInView == {filtered_data[i].customer_state : i \in DOMAIN filtered_data}

\* The latest purchase timestamp among the view's rows at I.
LastPurchase(I) ==
  CHOOSE t \in {filtered_data[i].order_purchase_timestamp : i \in I} :
     \A i \in I : filtered_data[i].order_purchase_timestamp <= t

\* The position of the first row of customer c in the view.
FirstSeen(c) ==
  CHOOSE i \in RowsOfCustomer(c) : \A j \in RowsOfCustomer(c) : i <= j

\* The labels are a one-to-one numbering of the view's customers by 1..N.
LabelsAreDense ==
  /\ Len(rfm_df) = Cardinality(CustomersInView)
  /\ {rfm_df[k].customer_id : k \in DOMAIN rfm_df} = CustomersInView
  /\ {rfm_df[k].numeric_id : k \in DOMAIN rfm_df} = 1..Cardinality(CustomersInView)

(***************************************************************************)
(* C4.  On a view that has rows, each customer's recency is the number of  *)
(* whole days from the customer's latest purchase to the latest purchase   *)
(* of the view; it is never negative, and it is 0 for the customer of the  *)
(* latest purchase.                                                        *)
(***************************************************************************)
C4_Recency ==
  (Ran("rfm") /\ filtered_data # <<>>) =>
     /\ \A c \in CustomersInView :
          \E k \in DOMAIN rfm_df : rfm_df[k].customer_id = c
     /\ \A k \in DOMAIN rfm_df :
          LET gap == LastPurchase(DOMAIN filtered_data)
                       - LastPurchase(RowsOfCustomer(rfm_df[k].customer_id))
          IN  /\ rfm_df[k].recency * TicksPerDay <= gap
              /\ gap < (rfm_df[k].recency + 1) * TicksPerDay
              /\ rfm_df[k].recency >= 0
              /\ gap = 0 => rfm_df[k].recency = 0

\* One customer bought a day or more before the view's latest purchase,
\* which is another customer's.
C4_Witness ==
  /\ Ran("rfm")
  /\ \E k \in DOMAIN rfm_df : rfm_df[k].recency >= 1
  /\ \E k \in DOMAIN rfm_df : rfm_df[k].recency = 0

(***************************************************************************)
(* C5.  The RFM table has one row per customer of the view; its frequency  *)
(* is the number of the customer's rows and its monetary the sum of their  *)
(* payment values, so that the frequencies add up to the view's number of  *)
(* rows and the monetary values to its payment value.                      *)
(***************************************************************************)
C5_FrequencyMonetary ==
  Ran("rfm") =>
     /\ Len(rfm_df) = Cardinality(CustomersInView)
     /\ {rfm_df[k].customer_id : k \in DOMAIN rfm_df} = CustomersInView
     /\ \A k \in DOMAIN rfm_df :
          /\ rfm_df[k].frequency
               = Cardinality(RowsOfCustomer(rfm_df[k].customer_id))
          /\ rfm_df[k].monetary
               = TotalOver(filtered_data, "payment_value",
                           RowsOfCustomer(rfm_df[k].customer_id))
     /\ Total(rfm_df, "frequency") = Len(filtered_data)
     /\ Total(rfm_df, "monetary") = Total(filtered_data, "payment_value")

\* A customer has three rows of one order, with payments 1, 2 and 2.
C5_Witness ==
  /\ Ran("rfm")
  /\ DistinctOrders(DOMAIN filtered_data) = 1
  /\ \E k \in DOMAIN rfm_df :
       rfm_df[k].frequency = 3 /\ rfm_df[k].monetary = 5

(***************************************************************************)
(* C9 as stated.  The labels number the customers of the view by 1..N, in  *)
(* the order in which the customers are first seen in the view.            *)
(***************************************************************************)
C9_LabelsInFirstSeenOrder ==
  Ran("rfm") =>
     /\ LabelsAreDense
     /\ \A a \in DOMAIN rfm_df : \A b \in DOMAIN rfm_df :
          FirstSeen(rfm_df[a].customer_id) < FirstSeen(rfm_df[b].customer_id)
            => rfm_df[a].numeric_id < rfm_df[b].numeric_id

(***************************************************************************)
(* C9 amended.  The labels number the customers of the view by 1..N, in    *)
(* the order of the rows of the returned table, which is the ascending     *)
(* order of the customer identifiers.                                      *)
(***************************************************************************)
C9_LabelsInIdentifierOrder ==
  Ran("rfm") =>
     /\ LabelsAreDense
     /\ \A k \in DOMAIN rfm_df : rfm_df[k].numeric_id = k
     /\ \A a \in DOMAIN rfm_df : \A b \in DOMAIN rfm_df :
          rfm_df[a].customer_id < rfm_df[b].customer_id
            => rfm_df[a].numeric_id < rfm_df[b].numeric_id

\* The view shows the customer of the greater identifier first.
C9_Witness ==
  /\ Ran("rfm")
  /\ Len(rfm_df) >= 2
  /\ \E c \in CustomersInView : \E d \in CustomersInView :
       c < d /\ FirstSeen(d) < FirstSeen(c)

(***************************************************************************)
(* C7.  The geo summary has one entry per state of the view, valued by the *)
(* sum of the payment values of the state's rows, and the values do not    *)
(* decrease along the returned order.                                      *)
(***************************************************************************)
C7_GeoAscending ==
  Ran("geo") =>
     /\ Len(sales_by_state) = Cardinality(StatesInView)
     /\ {sales_by_state[k].customer_state : k \in DOMAIN sales_by_state}
          = StatesInView
     /\ \A k \in DOMAIN sales_by_state :
          sales_by_state[k].payment_value
            = TotalOver(filtered_data, "payment_value",
                        RowsOfState(sales_by_state[k].customer_state))
     /\ \A k \in 1..(Len(sales_by_state) - 1) :
          sales_by_state[k].payment_value <= sales_by_state[k + 1].payment_value

\* States of unequal sums in the returned order, one of them of two rows.
C7_Witness ==
  /\ Ran("geo")
  /\ Len(sales_by_state) >= 2
  /\ sales_by_state[1].payment_value < sales_by_state[Len(sales_by_state)].payment_value
  /\ \E st \in StatesInView : Cardinality(RowsOfState(st)) >= 2

====
